---- MODULE Spec2Model ----
(***************************************************************************)
(* Secure telemetry ingestion of the restaurant backend:                   *)
(*   src/src/utils/encryption.js        decryptPayload / encryptPayload    *)
(*   src/src/controller/vapi.Controller.js   saveVapiCallLog               *)
(* The cryptographic primitives of Node's crypto module are modelled       *)
(* symbolically: a derived key is the term pbkdf2(secret, salt), a         *)
(* ciphertext is the term aes(key, iv, plaintext), an HMAC is the term     *)
(* hmac(secret, data).  JavaScript values are tagged records so that       *)
(* undefined, booleans, strings and objects stay distinct.                 *)
(***************************************************************************)
EXTENDS Integers, Sequences, FiniteSets, TLC

(* ------------------------------ bounds --------------------------------- *)
\* how many milliseconds the clock may advance past its initial reading
MaxTicks == 1

(* ------------------------- program constants --------------------------- *)
ENCRYPTION_KEY == "restaurantAI_secret_key_2024_secure_vapi_encryption"
\* ENCRYPTION_IV.padEnd(16, '0').slice(0, 16)
ivBuffer == "restaurant_ai_in"
\* 5 * 60 * 1000
maxAge == 300000
\* PBKDF2 iteration count and derived key length
Pbkdf2Iterations == 1000
Pbkdf2KeyLen == 32

\* the clock reading of the initial state (first reading at which a
\* timestamp of 1 is exactly maxAge old)
T0 == maxAge + 1

(* --------------------------- JavaScript values ------------------------- *)
Undefined == [js |-> "undefined"]
JsFalse == [js |-> "boolean", truthy |-> FALSE]
JsTrue == [js |-> "boolean", truthy |-> TRUE]
JsNull == [js |-> "null"]
JsNumber == [js |-> "number"]
\* the text of a hex string, as Buffer.from(x, 'hex') and digest('hex') see it
Hex(bytes) == [js |-> "hex", bytes |-> bytes]
JsObject(o) == [js |-> "object", obj |-> o]
\* a number and a string as values of a field that code does arithmetic on
JsNum(n) == [js |-> "number", n |-> n]
JsString(s) == [js |-> "string", s |-> s]

\* Number(v) is NaN: undefined, objects, and strings that are not numerals
\* (the only string modelled that converts to a number is the empty one)
IsNaN(v) ==
  CASE v.js = "number" -> FALSE
    [] v.js = "null" -> FALSE
    [] v.js = "boolean" -> FALSE
    [] v.js = "string" -> v.s # ""
    [] OTHER -> TRUE

\* Number(v) where it is not NaN: the conversion the - operator applies
ToNumber(v) ==
  CASE v.js = "number" -> v.n
    [] v.js = "boolean" -> IF v.truthy THEN 1 ELSE 0
    [] OTHER -> 0

\* JavaScript truthiness of the values that occur in a request body
Truthy(v) ==
  CASE v.js = "undefined" -> FALSE
    [] v.js = "null" -> FALSE
    [] v.js = "boolean" -> v.truthy
    [] OTHER -> TRUE

\* a value crypto accepts where it wants a string
IsString(v) == v.js \in {"hex", "cipher"}

(* --------------------------- plaintext payloads ------------------------ *)
Fields == {"callId", "duration", "summary", "_timestamp", "_version"}
InternalFields == {"_timestamp", "_version"}
CallIds == {"c1", "c2"}
Timestamps == {0, 1, T0 + 1, T0 + 2 * maxAge}

FieldValues ==
  [callId : CallIds \cup {""}, duration : {42}, summary : {"s"},
   _timestamp : {JsNum(n) : n \in Timestamps}, _version : {"1.0"}]

\* every object over Fields: each field either absent or one of its values
Payloads == { [f \in D |-> vals[f]] : D \in SUBSET Fields, vals \in FieldValues }

\* the texts JSON.parse may be handed: a serialised object, the literals
\* null and a number, and text that is not JSON
JSONstringify(o) == [text |-> "json", value |-> JsObject(o)]
NullText == [text |-> "json", value |-> JsNull]
NumberText == [text |-> "json", value |-> JsNumber]
GarbageText == [text |-> "garbage"]
Threw(msg) == [threw |-> TRUE, error |-> msg]
Returned(v) == [threw |-> FALSE, value |-> v]

JSONparse(t) ==
  IF t.text = "json" THEN Returned(t.value) ELSE Threw("Unexpected token")

(* ------------------------------ crypto --------------------------------- *)
pbkdf2Sync(secret, saltBuffer) ==
  <<"pbkdf2", secret, saltBuffer, Pbkdf2Iterations, Pbkdf2KeyLen, "sha256">>

\* createHmac('sha256', secret).update(data).digest('hex')
createHmac(secret, data) == Hex(<<"hmac-sha256", secret, data>>)

\* cipher.update + cipher.final of aes-256-cbc; altered marks a ciphertext
\* whose bytes were changed after encryption
createCipheriv(key, iv, text) ==
  [js |-> "cipher", key |-> key, iv |-> iv, text |-> text, altered |-> FALSE]

Tamper(ct) == [ct EXCEPT !.altered = TRUE]

\* what a changed ciphertext block can decrypt to when padding still
\* validates: the block is garbled inside a string field
Garbled(text) ==
  IF text.text = "json" /\ text.value.js = "object"
     /\ "summary" \in DOMAIN text.value.obj
  THEN {JSONstringify([text.value.obj EXCEPT !["summary"] = "garbled"])}
  ELSE {}

\* decipher.update + decipher.final: the set of outcomes the library can
\* produce for this key, iv and ciphertext
createDecipheriv(key, iv, ct) ==
  IF ~IsString(ct) THEN {Threw("The \"data\" argument must be of type string")}
  ELSE IF ct.js # "cipher" THEN {Threw("bad decrypt")}
  ELSE IF ct.key = key /\ ct.iv = iv /\ ~ct.altered THEN {Returned(ct.text)}
  ELSE IF ct.key = key /\ ct.iv = iv
       THEN {Threw("bad decrypt"), Returned(GarbageText)}
            \cup {Returned(g) : g \in Garbled(ct.text)}
  ELSE {Threw("bad decrypt"), Returned(GarbageText)}

(* ------------------------- encryption.js ------------------------------- *)
\* own fields of a parsed value; primitives have none
Has(v, f) == v.js = "object" /\ f \in DOMAIN v.obj

\* MissingCallId that tests only for an absent field
MissingCallIdAbsentOnly(payload) == ~Has(payload, "callId")

\* !payload.callId
MissingCallId(payload) == ~Has(payload, "callId") \/ payload.obj["callId"] = ""

\* payload._timestamp converts to a number
Numeric(payload) ==
  Has(payload, "_timestamp") /\ ~IsNaN(payload.obj["_timestamp"])

\* now - payload._timestamp, where payload._timestamp converts to a number
Age(payload, now) == now - ToNumber(payload.obj["_timestamp"])

\* TooOld applied only to payloads that pass the callId validation
TooOldAfterValidation(payload, now) ==
  /\ ~MissingCallId(payload)
  /\ Numeric(payload) /\ Age(payload, now) > maxAge

\* TooOld with the window one millisecond too wide
TooOldWide(payload, now) ==
  Numeric(payload) /\ Age(payload, now) > maxAge + 1

\* TooOld with the boundary age rejected
TooOldInclusive(payload, now) ==
  Numeric(payload) /\ Age(payload, now) >= maxAge

\* TooOld that also rejects timestamps further than maxAge in the future
TooOldEitherWay(payload, now) ==
  Numeric(payload)
  /\ (Age(payload, now) > maxAge \/ 0 - Age(payload, now) > maxAge)

\* TooOld that also rejects a _timestamp whose age is not a number
TooOldUnlessNumeric(payload, now) ==
  /\ Has(payload, "_timestamp")
  /\ IsNaN(payload.obj["_timestamp"]) \/ Age(payload, now) > maxAge

\* age > maxAge; the age is NaN when payload._timestamp is absent or does
\* not convert to a number, and NaN > maxAge is false
TooOld(payload, now) == Numeric(payload) /\ Age(payload, now) > maxAge

\* RemoveInternal without the second delete
RemoveInternalTimestampOnly(payload) ==
  IF payload.js = "object"
  THEN JsObject([f \in DOMAIN payload.obj \ {"_timestamp"} |-> payload.obj[f]])
  ELSE payload

\* delete payload._timestamp; delete payload._version
RemoveInternal(payload) ==
  IF payload.js = "object"
  THEN JsObject([f \in DOMAIN payload.obj \ InternalFields |-> payload.obj[f]])
  ELSE payload

\* the part of the try block that follows JSON.parse
decryptFreshness(payload, now) ==
  IF payload.js \in {"null", "undefined"}
  THEN Threw("Cannot read properties of null")
  ELSE IF TooOld(payload, now)
  THEN Returned([success |-> FALSE,
                 error |-> "Payload has expired - Possible replay attack",
                 code |-> "REPLAY_ATTACK_DETECTED", age |-> Age(payload, now),
                 maxAge |-> maxAge])
  ELSE Returned([success |-> TRUE, data |-> RemoveInternal(payload),
                 code |-> "DECRYPTION_SUCCESS", decryptionTime |-> now])

\* the signature block: hmac.update throws on a value that is not a string;
\* the comparison itself only chooses the line that is logged
signatureThrows(encrypted, signature) == Truthy(signature) /\ ~IsString(encrypted)
signatureMismatch(encrypted, signature) ==
  Truthy(signature) /\ IsString(encrypted)
  /\ signature # createHmac(ENCRYPTION_KEY, encrypted)

Calls(t, kdf, cipher) == t @@ [kdfCalls |-> kdf, cipherCalls |-> cipher]

\* the try block of decryptPayload(encryptedData), run at clock reading now,
\* when the cipher produces out (one of createDecipheriv's outcomes); kdfCalls
\* and cipherCalls count the pbkdf2Sync and decipher calls made
decryptTry(encryptedData, now, out) ==
  LET encrypted == encryptedData.encrypted
      salt == encryptedData.salt
      signature == encryptedData.signature
  IN IF signatureThrows(encrypted, signature)
     THEN Calls(Threw("The \"data\" argument must be of type string"), 0, 0)
     ELSE IF ~IsString(salt)
     THEN Calls(Threw("The first argument must be of type string"), 0, 0)
     ELSE IF out.threw
     THEN Calls(out, 1, 1)
     ELSE LET parsed == JSONparse(out.value)
          IN IF parsed.threw THEN Calls(parsed, 1, 1)
             ELSE Calls(decryptFreshness(parsed.value, now), 1, 1)

\* decryptPayload without its catch block: what is thrown goes to the caller
decryptPayloadNoCatch(encryptedData, now, out) == decryptTry(encryptedData, now, out)

\* decryptPayload that rejects a signature that does not verify
decryptPayloadSigned(encryptedData, now, out) ==
  LET t == decryptTry(encryptedData, now, out)
  IN IF signatureMismatch(encryptedData.encrypted, encryptedData.signature)
     THEN [threw |-> FALSE,
           value |-> [success |-> FALSE, error |-> "Signature verification failed",
                      code |-> "SIGNATURE_MISMATCH"],
           kdfCalls |-> 0, cipherCalls |-> 0]
     ELSE IF t.threw
     THEN [threw |-> FALSE,
           value |-> [success |-> FALSE, error |-> t.error, code |-> "DECRYPTION_ERROR"],
           kdfCalls |-> t.kdfCalls, cipherCalls |-> t.cipherCalls]
     ELSE t

\* decryptPayload: the try block and its catch, which turns whatever was
\* thrown into a returned DECRYPTION_ERROR
decryptPayload(encryptedData, now, out) ==
  LET t == decryptTry(encryptedData, now, out)
  IN IF t.threw
     THEN [threw |-> FALSE,
           value |-> [success |-> FALSE, error |-> t.error, code |-> "DECRYPTION_ERROR"],
           kdfCalls |-> t.kdfCalls, cipherCalls |-> t.cipherCalls]
     ELSE t

\* the outcomes the cipher can produce inside decryptPayload(encryptedData)
CipherOutcomes(encryptedData) ==
  IF IsString(encryptedData.salt)
  THEN createDecipheriv(pbkdf2Sync(ENCRYPTION_KEY, encryptedData.salt.bytes),
                        ivBuffer, encryptedData.encrypted)
  ELSE {Threw("not reached")}

\* encryptPayload in which a _timestamp or _version of the payload
\* overrides the one the encoder adds
encryptPayloadPayloadWins(payload, timestamp, salt) ==
  LET dataWithTimestamp ==
        [f \in DOMAIN payload \cup InternalFields |->
           IF f \in DOMAIN payload THEN payload[f]
           ELSE IF f = "_timestamp" THEN JsNum(timestamp) ELSE "1.0"]
      encrypted == createCipheriv(pbkdf2Sync(ENCRYPTION_KEY, salt), ivBuffer,
                                  JSONstringify(dataWithTimestamp))
  IN [encrypted |-> encrypted, salt |-> Hex(salt),
      signature |-> createHmac(ENCRYPTION_KEY, encrypted),
      algorithm |-> "AES-256-CBC", timestamp |-> timestamp, success |-> TRUE]

\* encryptPayload(payload) run at clock reading timestamp, when randomBytes
\* returns salt: { ...payload, _timestamp, _version } is serialised,
\* encrypted under the key derived from the salt, and signed
encryptPayload(payload, timestamp, salt) ==
  LET dataWithTimestamp ==
        [f \in DOMAIN payload \cup InternalFields |->
           CASE f = "_timestamp" -> JsNum(timestamp)
             [] f = "_version" -> "1.0"
             [] OTHER -> payload[f]]
      jsonString == JSONstringify(dataWithTimestamp)
      derivedKey == pbkdf2Sync(ENCRYPTION_KEY, salt)
      encrypted == createCipheriv(derivedKey, ivBuffer, jsonString)
      signature == createHmac(ENCRYPTION_KEY, encrypted)
  IN [encrypted |-> encrypted, salt |-> Hex(salt), signature |-> signature,
      algorithm |-> "AES-256-CBC", timestamp |-> timestamp, success |-> TRUE]

(* ------------------------- vapi.Controller.js -------------------------- *)
\* the invocations of the handler that can be in flight together; requests
\* that come one after the other all use the slot of Sequential
Reqs == {"r1", "r2"}
Sequential == {"r1"}

Response(status, code) == [status |-> status, code |-> code]
NoResponse == [status |-> 0, code |-> "none"]
NoDoc == [exists |-> FALSE]
NoResult == [success |-> FALSE, code |-> "none"]

\* payload.callId of a decrypted value
CallIdOf(payload) == IF Has(payload, "callId") THEN payload.obj["callId"] ELSE ""

MetaFields == {"createdAt", "savedAt", "encryptionMetadata"}

\* the object handed to set(): { ...payload, createdAt, savedAt, encryptionMetadata }
CallLogDoc(payload, timestamp) ==
  [exists |-> TRUE,
   data |-> [f \in DOMAIN payload.obj \cup MetaFields |->
              CASE f = "createdAt" -> "serverTimestamp"
                [] f = "savedAt" -> timestamp
                [] f = "encryptionMetadata" ->
                     [encrypted |-> TRUE, algorithm |-> "AES-256-CBC",
                      verified |-> TRUE, decryptedAt |-> timestamp]
                [] OTHER -> payload.obj[f]]]

\* set(data, { merge: true }): the fields of data are laid over the old ones
FirestoreSetMerge(old, doc) ==
  IF old.exists
  THEN [exists |-> TRUE,
        data |-> [f \in DOMAIN old.data \cup DOMAIN doc.data |->
                   IF f \in DOMAIN doc.data THEN doc.data[f] ELSE old.data[f]]]
  ELSE doc

\* a write that leaves an existing document alone, as create() would
FirestoreSetCreateOnly(old, doc) == IF old.exists THEN old ELSE doc

\* doc(id).set(data) without merge: the stored document becomes data
FirestoreSet(old, doc) == doc

\* collection.doc(id) throws unless id is a non-empty string
docThrows(id) == id = ""

\* isUnencrypted that tests only for a missing flag
isUnencryptedMissingOnly(requestBody) == requestBody.encrypted = Undefined

\* if (!requestBody.encrypted)
isUnencrypted(requestBody) == ~Truthy(requestBody.encrypted)

\* status of a failed decryptionResult
decryptionStatus(code) ==
  IF code = "SIGNATURE_MISMATCH" THEN 401
  ELSE IF code = "REPLAY_ATTACK_DETECTED" THEN 403 ELSE 400

\* saveVapiCallLog from its first line to its first return or to the await
\* of set(): resp is the response sent (NoResponse while the write is
\* pending), doc the document handed to set() and id its document id.
saveVapiCallLogSync(requestBody, now, out) ==
  LET idle == [decryptCalls |-> 0, kdfCalls |-> 0, cipherCalls |-> 0,
               setCalls |-> 0, result |-> NoResult, doc |-> NoDoc, id |-> ""]
  IN IF isUnencrypted(requestBody)
     THEN idle @@ [resp |-> Response(400, "UNENCRYPTED_DATA")]
     ELSE LET d == decryptPayload(requestBody, now, out)
              ran == [idle EXCEPT !.decryptCalls = 1, !.kdfCalls = d.kdfCalls,
                                  !.cipherCalls = d.cipherCalls]
          IN IF d.threw
             THEN ran @@ [resp |-> Response(500, "SERVER_ERROR")]
             ELSE IF ~d.value.success
             THEN [ran EXCEPT !.result = d.value]
                    @@ [resp |-> Response(decryptionStatus(d.value.code), d.value.code)]
             ELSE IF MissingCallId(d.value.data)
             THEN [ran EXCEPT !.result = d.value]
                    @@ [resp |-> Response(400, "MISSING_CALL_ID")]
             ELSE IF docThrows(CallIdOf(d.value.data))
             THEN [ran EXCEPT !.result = d.value]
                    @@ [resp |-> Response(500, "SERVER_ERROR")]
             ELSE [ran EXCEPT !.result = d.value, !.setCalls = 1,
                              !.doc = CallLogDoc(d.value.data, now),
                              !.id = CallIdOf(d.value.data)]
                    @@ [resp |-> NoResponse]

(* ------------------------------ the pool ------------------------------- *)
Salt1 == Hex("salt-1")
Salt2 == Hex("salt-2")

\* payloads whose _timestamp is not a number: null, which converts to 0,
\* and a string that converts to NaN
OddTimestamps == {JsNull, JsString("soon")}
OddPayloads ==
  {[f \in Fields |->
      CASE f = "callId" -> c [] f = "duration" -> 42 [] f = "summary" -> "s"
        [] f = "_timestamp" -> v [] OTHER -> "1.0"] :
     c \in {"c1", ""}, v \in OddTimestamps}

Texts ==
  {JSONstringify(p) : p \in Payloads \cup OddPayloads}
  \cup {NullText, NumberText, GarbageText}

\* what an encoder holding the secret and using Salt1 produces for text
Encrypt(text) == createCipheriv(pbkdf2Sync(ENCRYPTION_KEY, Salt1.bytes), ivBuffer, text)

Envelope(encrypted, salt, signature) ==
  [encrypted |-> encrypted, salt |-> salt, signature |-> signature]

\* the signature field: absent, the HMAC of the ciphertext, or an HMAC made
\* with another secret
Signatures(encrypted) ==
  {Undefined, createHmac(ENCRYPTION_KEY, encrypted), createHmac("other-secret", encrypted)}

\* a payload an encoder would send: all fields present
SamplePayloads ==
  {p \in Payloads : DOMAIN p = Fields /\ p["callId"] = "c1"}

\* envelopes with a sound envelope part, over every text
SoundEnvelopes ==
  UNION { {Envelope(Encrypt(t), Salt1, s) : s \in Signatures(Encrypt(t))} : t \in Texts }

\* envelopes with a faulty envelope part, over the sample payloads
FaultyEnvelopes ==
  UNION { {Envelope(e, salt, s) : s \in Signatures(e)} :
          e \in {Undefined, JsFalse, JsTrue}
                \cup {Encrypt(JSONstringify(p)) : p \in SamplePayloads}
                \cup {Tamper(Encrypt(JSONstringify(p))) : p \in SamplePayloads},
          salt \in {Undefined, Salt1, Salt2} }

\* the body the doc comment of saveVapiCallLog describes: `encrypted` is the
\* boolean flag and the ciphertext travels in `encryptedData`
DocumentedEnvelope(ciphertext, salt, signature) ==
  [encrypted |-> JsTrue, encryptedData |-> ciphertext, salt |-> salt,
   signature |-> signature]

\* such bodies over the sample payloads, unsigned or signed over the ciphertext
DocumentedEnvelopes ==
  UNION { {DocumentedEnvelope(Encrypt(JSONstringify(p)), Salt1, s) :
             s \in {Undefined, createHmac(ENCRYPTION_KEY, Encrypt(JSONstringify(p)))}} :
          p \in SamplePayloads }

Envelopes == SoundEnvelopes \cup FaultyEnvelopes \cup DocumentedEnvelopes

(* ------------------------ booking.Controller.js ------------------------- *)
\* req.userIP, as the middleware of the app sets it
IPs == {"ip1", "ip2"}

\* RESTAURANT_TABLES.tables: ids in array order, seats, location, and the
\* value of `available` when the module is loaded
TableIds == 1..6
Seats == <<2, 2, 4, 4, 6, 8>>
Location == <<"Window", "Bar", "Center", "Corner", "Private", "Patio">>
InitialAvailable == [t \in TableIds |-> t # 4]

\* operatingHours, in minutes after midnight
closedOn == {"Monday"}
openTime == 11 * 60 + 0
closeTime == 23 * 60 + 0

\* the dates and times of the requests: a Tuesday to come, the Monday
\* before it, and a Tuesday that has passed
OpenDate == "2030-01-08"
ClosedDate == "2030-01-07"
PastDate == "2020-01-07"
Dates == {OpenDate, ClosedDate, PastDate}
Times == {"19:00", "10:59"}

\* new Date(date).toLocaleDateString('en-US', { weekday: 'long' })
DayName(date) == IF date = ClosedDate THEN "Monday" ELSE "Tuesday"
\* reqHour * 60 + reqMin of time.split(':').map(Number)
Minutes(time) == IF time = "19:00" THEN 19 * 60 + 0 ELSE 10 * 60 + 59
\* new Date(reservation.date) < new Date()
IsPast(date) == date = PastDate

isRestaurantOpen(date, time) ==
  /\ DayName(date) \notin closedOn
  /\ ~(Minutes(time) < openTime \/ Minutes(time) > closeTime)

\* the tables getAvailableTables returns: none when closed, else those with
\* seats >= numGuests that are available
getAvailableTables(available, numGuests, date, time) ==
  IF ~isRestaurantOpen(date, time) THEN {}
  ELSE {t \in TableIds : Seats[t] >= numGuests /\ available[t]}

\* the selection with the comparator reversed: of the tables with the most
\* seats the first in array order
LargestTable(suitable) ==
  CHOOSE t \in suitable :
    \A u \in suitable : Seats[t] > Seats[u] \/ (Seats[t] = Seats[u] /\ t <= u)

\* tables.sort((a, b) => a.seats - b.seats)[0]: the sort is stable, so of the
\* tables with the fewest seats the first in array order
SmallestTable(suitable) ==
  CHOOSE t \in suitable :
    \A u \in suitable : Seats[t] < Seats[u] \/ (Seats[t] = Seats[u] /\ t <= u)

\* JS null in a field that otherwise holds a string
NullString == "null"
NoReservation == [id |-> 0]

\* what a handler hands to res.status(status).json(...): the status and the
\* reservation in the body, if the body has one
BookingResponse(status, reservation) == [status |-> status, reservation |-> reservation]

\* the outcome of a handler: its response, and RESERVATIONS and the
\* `available` flags as it leaves them; awaits is TRUE when the handler is
\* suspended in `await sendReservationConfirmation` and has not answered yet
BookingOutcome(status, reservation, reservations, available, awaits) ==
  [resp |-> BookingResponse(status, reservation), RESERVATIONS |-> reservations,
   available |-> available, awaits |-> awaits]

\* RESERVATIONS.get(reservationId) is undefined
NotFound(reservations, reservationId) == reservationId \notin DOMAIN reservations

\* createReservation that has not yet marked the table when it awaits the
\* confirmation email
createReservationUnmarked(reservations, available, body, userIP, clock) ==
  IF body.customerName = "" \/ body.numGuests = 0 \/ body.date = "" \/ body.time = ""
  THEN [resp |-> [status |-> 400, reservation |-> [id |-> 0]],
        RESERVATIONS |-> reservations, available |-> available, awaits |-> FALSE]
  ELSE LET suitable ==
             IF ~isRestaurantOpen(body.date, body.time) THEN {}
             ELSE {t \in TableIds : Seats[t] >= body.numGuests /\ available[t]}
       IN IF suitable = {}
          THEN [resp |-> [status |-> 400, reservation |-> [id |-> 0]],
                RESERVATIONS |-> reservations, available |-> available, awaits |-> FALSE]
          ELSE LET selectedTable ==
                     CHOOSE t \in suitable :
                       \A u \in suitable :
                         Seats[t] < Seats[u] \/ (Seats[t] = Seats[u] /\ t <= u)
                   reservation ==
                     [id |-> Len(reservations) + 1, customerName |-> body.customerName,
                      email |-> IF body.email = "" THEN "null" ELSE body.email,
                      numGuests |-> body.numGuests, date |-> body.date,
                      time |-> body.time, tableId |-> selectedTable,
                      tableLocation |-> Location[selectedTable],
                      status |-> "confirmed", userIP |-> userIP,
                      createdAt |-> clock, updatedAt |-> clock]
               IN [resp |-> [status |-> IF body.email = "" THEN 201 ELSE 0,
                             reservation |-> IF body.email = "" THEN reservation
                                             ELSE [id |-> 0]],
                   RESERVATIONS |-> Append(reservations, reservation),
                   available |-> IF body.email = ""
                                 THEN [available EXCEPT ![selectedTable] = FALSE]
                                 ELSE available,
                   awaits |-> body.email # ""]

\* createReservation up to its await: body holds customerName, numGuests,
\* date, time and email, an absent field being "" or 0
createReservation(reservations, available, body, userIP, clock) ==
  IF body.customerName = "" \/ body.numGuests = 0 \/ body.date = "" \/ body.time = ""
  THEN BookingOutcome(400, NoReservation, reservations, available, FALSE)
  ELSE LET suitable == getAvailableTables(available, body.numGuests, body.date, body.time)
       IN IF suitable = {}
          THEN BookingOutcome(400, NoReservation, reservations, available, FALSE)
          ELSE LET reservationId == Len(reservations) + 1
                   selectedTable == SmallestTable(suitable)
                   reservation ==
                     [id |-> reservationId, customerName |-> body.customerName,
                      email |-> IF body.email = "" THEN NullString ELSE body.email,
                      numGuests |-> body.numGuests, date |-> body.date,
                      time |-> body.time, tableId |-> selectedTable,
                      tableLocation |-> Location[selectedTable],
                      status |-> "confirmed", userIP |-> userIP,
                      createdAt |-> clock, updatedAt |-> clock]
               IN BookingOutcome(IF body.email = "" THEN 201 ELSE 0,
                                 IF body.email = "" THEN reservation ELSE NoReservation,
                                 Append(reservations, reservation),
                                 [available EXCEPT ![selectedTable] = FALSE],
                                 body.email # "")

getReservation(reservations, reservationId, userIP) ==
  IF NotFound(reservations, reservationId) THEN BookingResponse(404, NoReservation)
  ELSE IF reservations[reservationId].userIP # userIP
  THEN BookingResponse(403, NoReservation)
  ELSE BookingResponse(200, reservations[reservationId])

\* cancelReservation without the comparison of userIP
cancelReservationAnyIP(reservations, available, reservationId, userIP, clock) ==
  IF NotFound(reservations, reservationId)
  THEN BookingOutcome(404, NoReservation, reservations, available, FALSE)
  ELSE LET reservation == reservations[reservationId]
       IN IF IsPast(reservation.date)
          THEN BookingOutcome(400, NoReservation, reservations, available, FALSE)
          ELSE LET cancelled == [reservation EXCEPT !.status = "cancelled",
                                                    !.updatedAt = clock]
               IN BookingOutcome(200, cancelled,
                                 [reservations EXCEPT ![reservationId] = cancelled],
                                 [available EXCEPT ![reservation.tableId] = TRUE],
                                 FALSE)

cancelReservation(reservations, available, reservationId, userIP, clock) ==
  IF NotFound(reservations, reservationId)
  THEN BookingOutcome(404, NoReservation, reservations, available, FALSE)
  ELSE LET reservation == reservations[reservationId]
       IN IF reservation.userIP # userIP
          THEN BookingOutcome(403, NoReservation, reservations, available, FALSE)
          ELSE IF IsPast(reservation.date)
          THEN BookingOutcome(400, NoReservation, reservations, available, FALSE)
          ELSE LET cancelled == [reservation EXCEPT !.status = "cancelled",
                                                    !.updatedAt = clock]
               IN BookingOutcome(200, cancelled,
                                 [reservations EXCEPT ![reservationId] = cancelled],
                                 [available EXCEPT ![reservation.tableId] = TRUE],
                                 FALSE)

\* body holds date, time and numGuests, an absent field being "" or 0
modifyReservation(reservations, available, reservationId, body, userIP, clock) ==
  IF NotFound(reservations, reservationId)
  THEN BookingOutcome(404, NoReservation, reservations, available, FALSE)
  ELSE LET reservation == reservations[reservationId]
       IN IF reservation.userIP # userIP
          THEN BookingOutcome(403, NoReservation, reservations, available, FALSE)
          ELSE IF body.date = "" /\ body.time = "" /\ body.numGuests = 0
          THEN LET touched == [reservation EXCEPT !.updatedAt = clock]
               IN BookingOutcome(200, touched,
                                 [reservations EXCEPT ![reservationId] = touched],
                                 available, FALSE)
          ELSE LET newDate == IF body.date # "" THEN body.date ELSE reservation.date
                   newTime == IF body.time # "" THEN body.time ELSE reservation.time
                   newGuests == IF body.numGuests # 0 THEN body.numGuests
                                ELSE reservation.numGuests
                   suitable == getAvailableTables(available, newGuests, newDate, newTime)
               IN IF suitable = {}
                  THEN BookingOutcome(400, NoReservation, reservations, available, FALSE)
                  ELSE LET newTable == SmallestTable(suitable)
                           modified ==
                             [reservation EXCEPT !.date = newDate, !.time = newTime,
                                                 !.numGuests = newGuests,
                                                 !.tableId = newTable,
                                                 !.tableLocation = Location[newTable],
                                                 !.updatedAt = clock]
                       IN BookingOutcome(
                            200, modified,
                            [reservations EXCEPT ![reservationId] = modified],
                            [[available EXCEPT ![reservation.tableId] = TRUE]
                               EXCEPT ![newTable] = FALSE],
                            FALSE)

(* ------------------------ payment.Controller.js ------------------------- *)
NoPayment == [id |-> 0]

\* the status and the payment in the body, if the body has one
PaymentResponse(status, payment) == [status |-> status, payment |-> payment]

\* the outcome of a handler: its response and PAYMENTS as it leaves it;
\* awaits is TRUE when the handler is suspended in
\* `await sendPaymentConfirmation` and has not answered yet
PaymentOutcome(status, payment, payments, awaits) ==
  [resp |-> PaymentResponse(status, payment), PAYMENTS |-> payments, awaits |-> awaits]

\* validateCardDetails(card).valid, the card being one that passes the four
\* format checks or one that fails one of them
validateCardDetails(cardDetails) == cardDetails = "well-formed"

\* processCardPaymentHandler up to its await: body holds reservationId,
\* cardDetails, amount and email, an absent field being "" or 0; lucky is
\* Math.random() < 0.9
processCardPaymentHandler(payments, body, userIP, clock, lucky) ==
  IF body.reservationId = "" \/ body.cardDetails = "" \/ body.amount = 0
  THEN PaymentOutcome(400, NoPayment, payments, FALSE)
  ELSE IF ~validateCardDetails(body.cardDetails) \/ ~lucky
  THEN PaymentOutcome(402, NoPayment, payments, FALSE)
  ELSE LET paymentId == Len(payments) + 1
           payment == [id |-> paymentId, reservationId |-> body.reservationId,
                       method |-> "card", amount |-> body.amount, currency |-> "USD",
                       status |-> "completed", maskedCard |-> "**** **** **** 1111",
                       transactionId |-> <<"TXN", clock>>, userIP |-> userIP,
                       createdAt |-> clock]
       IN PaymentOutcome(IF body.email = "" THEN 201 ELSE 0, NoPayment,
                         Append(payments, payment), body.email # "")

\* body holds reservationId and method, an absent field being ""
confirmOfflinePaymentHandler(payments, body, userIP, clock) ==
  IF body.reservationId = "" \/ body.method = ""
  THEN PaymentOutcome(400, NoPayment, payments, FALSE)
  ELSE IF body.method \notin {"bank_transfer", "cashapp"}
  THEN PaymentOutcome(400, NoPayment, payments, FALSE)
  ELSE LET paymentId == Len(payments) + 1
           payment == [id |-> paymentId, reservationId |-> body.reservationId,
                       method |-> body.method, status |-> "pending_verification",
                       notes |-> "", userIP |-> userIP, createdAt |-> clock,
                       verifiedAt |-> NullString]
       IN PaymentOutcome(201, NoPayment, Append(payments, payment), FALSE)

\* getPaymentStatusHandler without the comparison of userIP
getPaymentStatusHandlerAnyIP(payments, paymentId, userIP) ==
  IF paymentId \notin DOMAIN payments
  THEN PaymentOutcome(404, NoPayment, payments, FALSE)
  ELSE PaymentOutcome(200, payments[paymentId], payments, FALSE)

getPaymentStatusHandler(payments, paymentId, userIP) ==
  IF paymentId \notin DOMAIN payments
  THEN PaymentOutcome(404, NoPayment, payments, FALSE)
  ELSE IF payments[paymentId].userIP # userIP
  THEN PaymentOutcome(403, NoPayment, payments, FALSE)
  ELSE PaymentOutcome(200, payments[paymentId], payments, FALSE)

(* ------------------------------- state --------------------------------- *)
VARIABLES
  now,    \* Date.now()
  store,  \* the Firestore collection vapiCallLogs: document id -> document
  req,    \* the saveVapiCallLog invocations, one per slot
  rt,     \* an encoder that calls encryptPayload and a decoder that calls
          \* decryptPayload on what it produced
  RESERVATIONS,  \* the Map of reservations, in the order they were made
  available,     \* RESTAURANT_TABLES.tables[i].available, by table id
  breq,          \* the invocations of the booking handlers, one per slot
  PAYMENTS,      \* the Map of payments, in the order they were made
  preq           \* the invocation of a payment handler

bookingVars == <<RESERVATIONS, available, breq>>
paymentVars == <<PAYMENTS, preq>>

\* the state outside the ingestion handler
outsideIngestion == <<rt, RESERVATIONS, available, breq, PAYMENTS, preq>>

vars == <<now, store, req, rt, RESERVATIONS, available, breq, PAYMENTS, preq>>

\* the cipher outcome of a request that made no cipher call
NotCalled == [threw |-> FALSE, value |-> [text |-> "none"]]

IdleReq ==
  [pc |-> "idle", body |-> Envelope(Undefined, Undefined, Undefined),
   timestamp |-> 0, decryptCalls |-> 0, kdfCalls |-> 0, cipherCalls |-> 0,
   setCalls |-> 0, plain |-> NotCalled, result |-> NoResult, doc |-> NoDoc,
   id |-> "", resp |-> NoResponse, replaced |-> NoDoc,
   sent |-> 0, escaped |-> FALSE, set |-> "none"]

\* the invocations of booking handlers that can be in flight together;
\* requests that come one after the other all use the slot of BSequential
BReqs == {"b1", "b2"}
BSequential == {"b1"}

NoBody == [date |-> "", time |-> "", numGuests |-> 0]

IdleBooking ==
  [pc |-> "idle", op |-> "none", userIP |-> "", reservationId |-> 0,
   body |-> NoBody, resp |-> BookingResponse(0, NoReservation)]

IdlePayment ==
  [pc |-> "idle", op |-> "none", userIP |-> "", paymentId |-> 0,
   resp |-> PaymentResponse(0, NoPayment)]

\* the encoder has produced nothing yet
IdleRt ==
  [pc |-> "idle", payload |-> [f \in {} |-> ""], sealed |-> [success |-> FALSE],
   opened |-> NoResult, openedAt |-> 0]

Init ==
  /\ now = T0
  /\ store = [c \in CallIds |-> NoDoc]
  /\ req = [r \in Reqs |-> IdleReq]
  /\ rt = IdleRt
  /\ RESERVATIONS = <<>>
  /\ available = InitialAvailable
  /\ breq = [b \in BReqs |-> IdleBooking]
  /\ PAYMENTS = <<>>
  /\ preq = IdlePayment

\* the wall clock advances
Tick ==
  /\ now < T0 + MaxTicks
  /\ now' = now + 1
  /\ UNCHANGED <<store, req>>
  /\ UNCHANGED outsideIngestion

\* Receive with the document stored as soon as the cipher returns an object
\* naming a call, before the freshness check and the validation
ReceiveWritesFirst(r, requestBody) ==
  /\ req[r].pc = "idle"
  /\ \E out \in CipherOutcomes(requestBody) :
       LET h == saveVapiCallLogSync(requestBody, now, out)
           early == /\ h.cipherCalls = 1 /\ ~out.threw /\ out.value.text = "json"
                    /\ ~MissingCallId(out.value.value)
       IN /\ req' = [req EXCEPT ![r] =
                      [pc |-> IF h.resp = NoResponse THEN "awaitSet" ELSE "done",
                       body |-> requestBody, timestamp |-> now,
                       decryptCalls |-> h.decryptCalls, kdfCalls |-> h.kdfCalls,
                       cipherCalls |-> h.cipherCalls, setCalls |-> h.setCalls,
                       plain |-> IF h.cipherCalls = 1 THEN out ELSE NotCalled,
                       result |-> h.result, doc |-> h.doc, id |-> h.id,
                       resp |-> h.resp, replaced |-> NoDoc,
                       sent |-> IF h.resp = NoResponse THEN 0 ELSE 1,
                       escaped |-> FALSE,
                       set |-> IF h.setCalls = 1 THEN "pending" ELSE "none"]]
          /\ store' = IF early
                      THEN [store EXCEPT ![CallIdOf(out.value.value)] =
                             CallLogDoc(RemoveInternal(out.value.value), now)]
                      ELSE store
  /\ UNCHANGED now
  /\ UNCHANGED outsideIngestion

\* POST /api/vapi-call-log arrives: the handler runs up to its first return
\* or up to the await of set()
Receive(r, requestBody) ==
  /\ req[r].pc = "idle"
  /\ \E out \in CipherOutcomes(requestBody) :
       LET h == saveVapiCallLogSync(requestBody, now, out)
       IN req' = [req EXCEPT ![r] =
                   [pc |-> IF h.resp = NoResponse THEN "awaitSet" ELSE "done",
                    body |-> requestBody, timestamp |-> now,
                    decryptCalls |-> h.decryptCalls, kdfCalls |-> h.kdfCalls,
                    cipherCalls |-> h.cipherCalls, setCalls |-> h.setCalls,
                    plain |-> IF h.cipherCalls = 1 THEN out ELSE NotCalled,
                    result |-> h.result, doc |-> h.doc, id |-> h.id,
                    resp |-> h.resp, replaced |-> NoDoc,
                    sent |-> IF h.resp = NoResponse THEN 0 ELSE 1,
                    escaped |-> FALSE,
                    set |-> IF h.setCalls = 1 THEN "pending" ELSE "none"]]
  /\ UNCHANGED <<now, store>>
  /\ UNCHANGED outsideIngestion

\* SetResolves that sends the success response without the document
\* having been stored
SetResolvesUnstored(r) ==
  /\ req[r].pc = "awaitSet"
  /\ req' = [req EXCEPT ![r].pc = "done",
                        ![r].resp = Response(200, "CALL_LOG_SAVED_ENCRYPTED"),
                        ![r].sent = @ + 1,
                        ![r].set = "resolved"]
  /\ UNCHANGED <<now, store>>
  /\ UNCHANGED outsideIngestion

\* SetResolves in which the document to store is kept in one place for all
\* requests: the write stores the document of the request that arrived last
SetResolvesSharedDoc(r) ==
  /\ req[r].pc = "awaitSet"
  /\ LET later == {q \in Reqs \ {r} : req[q].pc = "awaitSet"}
         doc == IF later = {} THEN req[r].doc
                ELSE req[CHOOSE q \in later : TRUE].doc
     IN store' = [store EXCEPT ![req[r].id] = FirestoreSet(@, doc)]
  /\ req' = [req EXCEPT ![r].pc = "done",
                        ![r].resp = Response(200, "CALL_LOG_SAVED_ENCRYPTED"),
                        ![r].replaced = store[req[r].id],
                        ![r].sent = @ + 1,
                        ![r].set = "resolved"]
  /\ UNCHANGED now
  /\ UNCHANGED outsideIngestion

\* the promise of set() resolves: the document is stored, 200 is sent
SetResolves(r) ==
  /\ req[r].pc = "awaitSet"
  /\ store' = [store EXCEPT ![req[r].id] = FirestoreSet(@, req[r].doc)]
  /\ req' = [req EXCEPT ![r].pc = "done",
                        ![r].resp = Response(200, "CALL_LOG_SAVED_ENCRYPTED"),
                        ![r].replaced = store[req[r].id],
                        ![r].sent = @ + 1,
                        ![r].set = "resolved"]
  /\ UNCHANGED now
  /\ UNCHANGED outsideIngestion

\* SetRejects without the catch block: the rejection leaves the handler and
\* no response is sent
SetRejectsUncaught(r) ==
  /\ req[r].pc = "awaitSet"
  /\ req' = [req EXCEPT ![r].pc = "done",
                        ![r].escaped = TRUE,
                        ![r].set = "rejected"]
  /\ UNCHANGED <<now, store>>
  /\ UNCHANGED outsideIngestion

\* SetRejects with the failure of the store reported as a validation error
SetRejectsAsBadRequest(r) ==
  /\ req[r].pc = "awaitSet"
  /\ req' = [req EXCEPT ![r].pc = "done",
                        ![r].resp = Response(400, "MISSING_CALL_ID"),
                        ![r].sent = @ + 1,
                        ![r].set = "rejected"]
  /\ UNCHANGED <<now, store>>
  /\ UNCHANGED outsideIngestion

\* the promise of set() rejects: the catch block sends 500
SetRejects(r) ==
  /\ req[r].pc = "awaitSet"
  /\ req' = [req EXCEPT ![r].pc = "done",
                        ![r].resp = Response(500, "SERVER_ERROR"),
                        ![r].sent = @ + 1,
                        ![r].set = "rejected"]
  /\ UNCHANGED <<now, store>>
  /\ UNCHANGED outsideIngestion

\* the handler has returned; the slot takes the next request
Return(r) ==
  /\ req[r].pc = "done"
  /\ req' = [req EXCEPT ![r] = IdleReq]
  /\ UNCHANGED <<now, store>>
  /\ UNCHANGED outsideIngestion

(* ------------------- encryptPayload then decryptPayload ----------------- *)
\* the salts randomBytes(16) returns
RandomSalts == {Salt1.bytes, Salt2.bytes}

\* the clock advances by the whole freshness window
Elapse ==
  /\ now <= T0 + MaxTicks
  /\ now' = now + maxAge
  /\ UNCHANGED <<store, req, rt>>
  /\ UNCHANGED <<bookingVars, paymentVars>>

\* the encoder calls encryptPayload(payload)
RtEncrypt(payload, salt) ==
  /\ rt.pc = "idle"
  /\ rt' = [rt EXCEPT !.pc = "encrypted", !.payload = payload,
                      !.sealed = encryptPayload(payload, now, salt)]
  /\ UNCHANGED <<now, store, req>>
  /\ UNCHANGED <<bookingVars, paymentVars>>

\* the decoder calls decryptPayload on what the encoder returned
RtDecrypt ==
  /\ rt.pc = "encrypted"
  /\ \E out \in CipherOutcomes(rt.sealed) :
       rt' = [rt EXCEPT !.pc = "decrypted",
                        !.opened = decryptPayload(rt.sealed, now, out).value,
                        !.openedAt = now]
  /\ UNCHANGED <<now, store, req>>
  /\ UNCHANGED <<bookingVars, paymentVars>>

\* the next payload
RtReset ==
  /\ rt.pc = "decrypted"
  /\ rt' = IdleRt
  /\ UNCHANGED <<now, store, req>>
  /\ UNCHANGED <<bookingVars, paymentVars>>

NextRoundTrip ==
  \/ Tick
  \/ Elapse
  \/ \E p \in Payloads, salt \in RandomSalts : RtEncrypt(p, salt)
  \/ RtDecrypt
  \/ RtReset

SpecRoundTrip == Init /\ [][NextRoundTrip]_vars

(* ------------------------------- bookings ------------------------------- *)
MaxReservations == 3

\* the createReservation requests: who sends them and the body
CreateRequests ==
  {[userIP |-> "ip1",
    body |-> [customerName |-> "Ann", numGuests |-> 2, date |-> OpenDate,
              time |-> "19:00", email |-> "ann@example.com"]],
   [userIP |-> "ip2",
    body |-> [customerName |-> "Bob", numGuests |-> 5, date |-> PastDate,
              time |-> "19:00", email |-> ""]],
   [userIP |-> "ip1",
    body |-> [customerName |-> "", numGuests |-> 2, date |-> OpenDate,
              time |-> "19:00", email |-> ""]],
   [userIP |-> "ip1",
    body |-> [customerName |-> "Ann", numGuests |-> 2, date |-> ClosedDate,
              time |-> "19:00", email |-> ""]],
   [userIP |-> "ip2",
    body |-> [customerName |-> "Bob", numGuests |-> 5, date |-> OpenDate,
              time |-> "10:59", email |-> ""]],
   [userIP |-> "ip2",
    body |-> [customerName |-> "Bob", numGuests |-> 9, date |-> OpenDate,
              time |-> "19:00", email |-> ""]]}

\* the bodies of modifyReservation: nothing to change, a larger party, a
\* day the restaurant is closed
ModifyBodies ==
  {NoBody,
   [date |-> "", time |-> "", numGuests |-> 5],
   [date |-> ClosedDate, time |-> "", numGuests |-> 0]}

\* the reservationId of req.params: one that was or may be given out
ReservationIds == 1..MaxReservations

CreateReservation(b, c) ==
  /\ breq[b].pc = "idle"
  /\ LET o == createReservation(RESERVATIONS, available, c.body, c.userIP, now)
     IN /\ Len(o.RESERVATIONS) <= MaxReservations
        /\ RESERVATIONS' = o.RESERVATIONS
        /\ available' = o.available
        /\ breq' = [breq EXCEPT ![b] =
                     [pc |-> IF o.awaits THEN "awaitEmail" ELSE "done",
                      op |-> "createReservation", userIP |-> c.userIP,
                      reservationId |-> IF o.RESERVATIONS = RESERVATIONS THEN 0
                                        ELSE Len(o.RESERVATIONS),
                      body |-> [date |-> c.body.date, time |-> c.body.time,
                                numGuests |-> c.body.numGuests],
                      resp |-> o.resp]]
  /\ UNCHANGED <<now, store, req, rt, paymentVars>>

\* sendReservationConfirmation has returned (it catches its own errors):
\* createReservation answers 201 with the reservation as it is now
EmailSettles(b) ==
  /\ breq[b].pc = "awaitEmail"
  /\ breq' = [breq EXCEPT ![b].pc = "done",
                          ![b].resp = BookingResponse(201, RESERVATIONS[breq[b].reservationId])]
  /\ UNCHANGED <<now, store, req, rt, RESERVATIONS, available, paymentVars>>

GetReservation(b, userIP, reservationId) ==
  /\ breq[b].pc = "idle"
  /\ breq' = [breq EXCEPT ![b] =
                [pc |-> "done", op |-> "getReservation", userIP |-> userIP,
                 reservationId |-> reservationId, body |-> NoBody,
                 resp |-> getReservation(RESERVATIONS, reservationId, userIP)]]
  /\ UNCHANGED <<now, store, req, rt, RESERVATIONS, available, paymentVars>>

CancelReservation(b, userIP, reservationId) ==
  /\ breq[b].pc = "idle"
  /\ LET o == cancelReservation(RESERVATIONS, available, reservationId, userIP, now)
     IN /\ RESERVATIONS' = o.RESERVATIONS
        /\ available' = o.available
        /\ breq' = [breq EXCEPT ![b] =
                     [pc |-> "done", op |-> "cancelReservation", userIP |-> userIP,
                      reservationId |-> reservationId, body |-> NoBody,
                      resp |-> o.resp]]
  /\ UNCHANGED <<now, store, req, rt, paymentVars>>

ModifyReservation(b, userIP, reservationId, body) ==
  /\ breq[b].pc = "idle"
  /\ LET o == modifyReservation(RESERVATIONS, available, reservationId, body, userIP, now)
     IN /\ RESERVATIONS' = o.RESERVATIONS
        /\ available' = o.available
        /\ breq' = [breq EXCEPT ![b] =
                     [pc |-> "done", op |-> "modifyReservation", userIP |-> userIP,
                      reservationId |-> reservationId, body |-> body,
                      resp |-> o.resp]]
  /\ UNCHANGED <<now, store, req, rt, paymentVars>>

\* the handler has returned; the slot takes the next request
BookingReturn(b) ==
  /\ breq[b].pc = "done"
  /\ breq' = [breq EXCEPT ![b] = IdleBooking]
  /\ UNCHANGED <<now, store, req, rt, RESERVATIONS, available, paymentVars>>

NextBooking ==
  \/ \E b \in BSequential, c \in CreateRequests : CreateReservation(b, c)
  \/ \E b \in BSequential : EmailSettles(b)
  \/ \E b \in BSequential, userIP \in IPs, id \in ReservationIds :
       GetReservation(b, userIP, id)
  \/ \E b \in BSequential, userIP \in IPs, id \in ReservationIds :
       CancelReservation(b, userIP, id)
  \/ \E b \in BSequential, userIP \in IPs, id \in ReservationIds, body \in ModifyBodies :
       ModifyReservation(b, userIP, id, body)
  \/ \E b \in BSequential : BookingReturn(b)

SpecBooking == Init /\ [][NextBooking]_vars

(* -------------------- createReservation calls together ------------------ *)
\* the requests that are accepted: parties of two and of five, those of Ann
\* with an email address
AcceptedCreateRequests ==
  {c \in CreateRequests :
     /\ c.body.customerName # ""
     /\ isRestaurantOpen(c.body.date, c.body.time)
     /\ c.body.numGuests <= 8} \cup
  {[userIP |-> "ip2",
    body |-> [customerName |-> "Cy", numGuests |-> 2, date |-> OpenDate,
              time |-> "19:00", email |-> "cy@example.com"]]}

\* both slots run createReservation; one may be suspended in its await while
\* the other runs from its start to its await or its answer
NextBookingConcurrent ==
  \/ \E b \in BReqs, c \in AcceptedCreateRequests : CreateReservation(b, c)
  \/ \E b \in BReqs : EmailSettles(b)
  \/ \E b \in BReqs : BookingReturn(b)

SpecBookingConcurrent == Init /\ [][NextBookingConcurrent]_vars

(* ------------------------------- payments ------------------------------- *)
MaxPayments == 2

\* the process-card requests: who sends them and the body
CardRequests ==
  {[userIP |-> "ip1",
    body |-> [reservationId |-> "RES-1", cardDetails |-> "well-formed",
              amount |-> 50, email |-> ""]],
   [userIP |-> "ip2",
    body |-> [reservationId |-> "RES-2", cardDetails |-> "well-formed",
              amount |-> 50, email |-> "bob@example.com"]],
   [userIP |-> "ip1",
    body |-> [reservationId |-> "RES-1", cardDetails |-> "malformed",
              amount |-> 50, email |-> ""]],
   [userIP |-> "ip1",
    body |-> [reservationId |-> "", cardDetails |-> "well-formed",
              amount |-> 50, email |-> ""]]}

\* the confirm-offline requests
OfflineRequests ==
  {[userIP |-> "ip2", body |-> [reservationId |-> "RES-2", method |-> "bank_transfer"]],
   [userIP |-> "ip1", body |-> [reservationId |-> "RES-1", method |-> "cashapp"]],
   [userIP |-> "ip1", body |-> [reservationId |-> "RES-1", method |-> "paypal"]],
   [userIP |-> "ip2", body |-> [reservationId |-> "RES-2", method |-> ""]]}

\* the paymentId of req.params: one that was or may be given out
PaymentIds == 1..MaxPayments

ProcessCardPayment(c, lucky) ==
  /\ preq.pc = "idle"
  /\ LET o == processCardPaymentHandler(PAYMENTS, c.body, c.userIP, now, lucky)
     IN /\ Len(o.PAYMENTS) <= MaxPayments
        /\ PAYMENTS' = o.PAYMENTS
        /\ preq' = [pc |-> IF o.awaits THEN "awaitEmail" ELSE "done",
                    op |-> "processCardPayment", userIP |-> c.userIP,
                    paymentId |-> IF o.PAYMENTS = PAYMENTS THEN 0 ELSE Len(o.PAYMENTS),
                    resp |-> o.resp]
  /\ UNCHANGED <<now, store, req, rt, bookingVars>>

\* sendPaymentConfirmation has returned (it catches its own errors): the
\* handler answers 201
PaymentEmailSettles ==
  /\ preq.pc = "awaitEmail"
  /\ preq' = [preq EXCEPT !.pc = "done", !.resp = PaymentResponse(201, NoPayment)]
  /\ UNCHANGED <<now, store, req, rt, bookingVars, PAYMENTS>>

ConfirmOfflinePayment(c) ==
  /\ preq.pc = "idle"
  /\ LET o == confirmOfflinePaymentHandler(PAYMENTS, c.body, c.userIP, now)
     IN /\ Len(o.PAYMENTS) <= MaxPayments
        /\ PAYMENTS' = o.PAYMENTS
        /\ preq' = [pc |-> "done", op |-> "confirmOfflinePayment", userIP |-> c.userIP,
                    paymentId |-> IF o.PAYMENTS = PAYMENTS THEN 0 ELSE Len(o.PAYMENTS),
                    resp |-> o.resp]
  /\ UNCHANGED <<now, store, req, rt, bookingVars>>

GetPaymentStatus(userIP, paymentId) ==
  /\ preq.pc = "idle"
  /\ LET o == getPaymentStatusHandler(PAYMENTS, paymentId, userIP)
     IN /\ PAYMENTS' = o.PAYMENTS
        /\ preq' = [pc |-> "done", op |-> "getPaymentStatus", userIP |-> userIP,
                    paymentId |-> paymentId, resp |-> o.resp]
  /\ UNCHANGED <<now, store, req, rt, bookingVars>>

\* the handler has returned; the next request is taken
PaymentReturn ==
  /\ preq.pc = "done"
  /\ preq' = IdlePayment
  /\ UNCHANGED <<now, store, req, rt, bookingVars, PAYMENTS>>

NextPayment ==
  \/ \E c \in CardRequests, lucky \in BOOLEAN : ProcessCardPayment(c, lucky)
  \/ PaymentEmailSettles
  \/ \E c \in OfflineRequests : ConfirmOfflinePayment(c)
  \/ \E userIP \in IPs, id \in PaymentIds : GetPaymentStatus(userIP, id)
  \/ PaymentReturn

SpecPayment == Init /\ [][NextPayment]_vars

(* ------------------------- requests in flight together ------------------ *)
\* payloads of two calls; the two for c1 differ in their fields
ConcurrentPayloads ==
  {p \in Payloads :
     /\ "callId" \in DOMAIN p /\ p["callId"] \in CallIds
     /\ InternalFields \subseteq DOMAIN p
     /\ p["_timestamp"] \in {JsNum(0), JsNum(T0 + 1)}
     /\ LET own == DOMAIN p \ InternalFields
        IN \/ p["callId"] = "c1" /\ own \in {{"callId", "duration"}, {"callId", "summary"}}
           \/ /\ p["callId"] = "c2" /\ own = {"callId", "duration", "summary"}
              /\ p["_timestamp"] = JsNum(T0 + 1)}

ConcurrentEnvelopes ==
  {Envelope(Encrypt(JSONstringify(p)), Salt1, Undefined) : p \in ConcurrentPayloads}
    \cup {Envelope(Undefined, Undefined, Undefined),
          Envelope(Encrypt(GarbageText), Salt1, createHmac("other-secret", Encrypt(GarbageText)))}

\* both slots take requests; a slot is not taken again
NextConcurrent ==
  \/ Tick
  \/ \E r \in Reqs, e \in ConcurrentEnvelopes : Receive(r, e)
  \/ \E r \in Reqs : SetResolves(r)
  \/ \E r \in Reqs : SetRejects(r)

SpecConcurrent == Init /\ [][NextConcurrent]_vars

(* ------------------------- envelopes sent again ------------------------- *)
\* payloads of call c1 that differ in their fields; a _timestamp of 1 is at
\* the edge of the window at T0, one of T0 + 1 is fresh at every reading
ReplayPayloads ==
  {p \in Payloads :
     /\ "callId" \in DOMAIN p /\ p["callId"] = "c1"
     /\ InternalFields \subseteq DOMAIN p
     /\ p["_timestamp"] \in {JsNum(1), JsNum(T0 + 1)}
     /\ DOMAIN p \ InternalFields \in {{"callId", "duration"}, {"callId", "summary"}}}

ReplayEnvelopes ==
  {Envelope(Encrypt(JSONstringify(p)), Salt1, createHmac(ENCRYPTION_KEY, Encrypt(JSONstringify(p)))) :
     p \in ReplayPayloads}

\* both slots take requests, one after the other or together, and a slot
\* that has answered is taken again
NextReplay ==
  \/ Tick
  \/ \E r \in Reqs, e \in ReplayEnvelopes : Receive(r, e)
  \/ \E r \in Reqs : SetResolves(r)
  \/ \E r \in Reqs : SetRejects(r)
  \/ \E r \in Reqs : Return(r)

SpecReplay == Init /\ [][NextReplay]_vars

Next ==
  \/ Tick
  \/ \E r \in Sequential, e \in Envelopes : Receive(r, e)
  \/ \E r \in Sequential : SetResolves(r)
  \/ \E r \in Sequential : SetRejects(r)
  \/ \E r \in Sequential : Return(r)

Spec == Init /\ [][Next]_vars

(* ------------------------------ claims --------------------------------- *)
Active(r) == req[r].pc # "idle"
Done(r) == req[r].pc = "done"
Arrives(r) == req[r].pc = "idle" /\ req'[r].pc # "idle"

\* the flag of the envelope is absent or false
FlagOff(e) == e.encrypted \in {Undefined, JsFalse}

\* the cipher of request r returned the serialisation of a value
Decrypted(r) == ~req[r].plain.threw /\ req[r].plain.value.text = "json"
\* that value
DecryptedValue(r) == req[r].plain.value.value
\* r decrypted to an object that carries a _timestamp with a numeric value
Timestamped(r) ==
  /\ Decrypted(r)
  /\ DecryptedValue(r).js = "object"
  /\ "_timestamp" \in DOMAIN DecryptedValue(r).obj
  /\ ~IsNaN(DecryptedValue(r).obj["_timestamp"])
\* the age of that timestamp when r was handled
AgeOf(r) == req[r].timestamp - ToNumber(DecryptedValue(r).obj["_timestamp"])
\* r decrypted to a value without a usable callId
NoCallId(r) ==
  \/ DecryptedValue(r).js # "object"
  \/ "callId" \notin DOMAIN DecryptedValue(r).obj
  \/ DecryptedValue(r).obj["callId"] = ""

\* C1: a request whose body has `encrypted` absent or false is answered 400
\* UNENCRYPTED_DATA in the step it arrives, without a call of decryptPayload,
\* of the key derivation or of the cipher, without a call of set() and with
\* the store left as it was.
C1_UnencryptedRejected ==
  [][\A r \in Reqs :
       (Arrives(r) /\ FlagOff(req'[r].body)) =>
         /\ req'[r].pc = "done"
         /\ req'[r].resp = Response(400, "UNENCRYPTED_DATA")
         /\ req'[r].decryptCalls = 0
         /\ req'[r].kdfCalls = 0
         /\ req'[r].cipherCalls = 0
         /\ req'[r].setCalls = 0
         /\ store' = store]_vars

C1_Witness ==
  \E r \in Reqs :
    /\ Done(r)
    /\ req[r].body.encrypted = JsFalse
    /\ req[r].body.salt = Salt1
    /\ req[r].resp.code = "UNENCRYPTED_DATA"

\* C2: a request whose envelope decrypts to a payload with
\* _timestamp <= now - 300001 is answered 403 REPLAY_ATTACK_DETECTED in the
\* step it arrives, whatever the other fields are, without a call of set()
\* and with the store left as it was.
C2_ExpiredRejected ==
  [][\A r \in Reqs :
       (Arrives(r) /\ Timestamped(r)' /\ AgeOf(r)' >= 300001) =>
         /\ req'[r].pc = "done"
         /\ req'[r].resp = Response(403, "REPLAY_ATTACK_DETECTED")
         /\ req'[r].result.code = "REPLAY_ATTACK_DETECTED"
         /\ req'[r].setCalls = 0
         /\ store' = store]_vars

C2_Witness ==
  \E r \in Reqs :
    /\ Done(r)
    /\ Timestamped(r)
    /\ AgeOf(r) = 300001
    /\ ~NoCallId(r)
    /\ req[r].resp.code = "REPLAY_ATTACK_DETECTED"

\* C3: a decrypted payload whose age is between 0 and 300000 ms inclusive
\* is not rejected by the freshness check: decryptPayload returns success,
\* the response is never REPLAY_ATTACK_DETECTED, and the request is decided
\* by the callId validation (MISSING_CALL_ID exactly when callId is missing).
C3_FreshAccepted ==
  \A r \in Reqs :
    (Active(r) /\ Timestamped(r) /\ AgeOf(r) >= 0 /\ AgeOf(r) <= 300000) =>
      /\ req[r].result.success
      /\ req[r].result.code = "DECRYPTION_SUCCESS"
      /\ req[r].resp.code # "REPLAY_ATTACK_DETECTED"
      /\ (req[r].resp.code = "MISSING_CALL_ID") <=> NoCallId(r)
      /\ NoCallId(r) \/ req[r].setCalls = 1

C3_Witness ==
  \E r \in Reqs :
    /\ Active(r)
    /\ Timestamped(r)
    /\ AgeOf(r) = 300000
    /\ req[r].result.success
    /\ req[r].setCalls = 1

\* what request r had decided when it reached its first return or the await
SyncOutcome(h) == [resp |-> h.resp, doc |-> h.doc, id |-> h.id, setCalls |-> h.setCalls]
SyncOutcomeOf(r) ==
  [resp |-> IF req[r].setCalls = 1 THEN NoResponse ELSE req[r].resp,
   doc |-> req[r].doc, id |-> req[r].id, setCalls |-> req[r].setCalls]

\* the envelope part of e is sound and its payload is fresh at clock reading t
\* and names a call
Acceptable(e, t) ==
  /\ e.encrypted.js = "cipher"
  /\ ~e.encrypted.altered
  /\ IsString(e.salt)
  /\ e.encrypted.key = pbkdf2Sync(ENCRYPTION_KEY, e.salt.bytes)
  /\ e.encrypted.text.text = "json"
  /\ e.encrypted.text.value.js = "object"
  /\ LET p == e.encrypted.text.value.obj
     IN /\ "callId" \in DOMAIN p /\ p["callId"] # ""
        /\ ("_timestamp" \in DOMAIN p /\ ~IsNaN(p["_timestamp"]))
             => t - ToNumber(p["_timestamp"]) <= maxAge

BadSignature(e) ==
  /\ e.signature # Undefined
  /\ e.signature # createHmac(ENCRYPTION_KEY, e.encrypted)

Business(o) == DOMAIN o \ InternalFields

\* C5: when the write of a request completes, the record under its callId
\* exists and holds exactly the business fields of that request's payload,
\* with the payload's values, next to the three fields ingestion adds: no
\* field of a record written earlier under the same callId survives, and
\* the records of other callIds are left alone.
C5_UpsertReflectsLastPayload ==
  [][\A r \in Reqs :
       (/\ req[r].pc = "awaitSet"
        /\ req'[r].pc = "done"
        /\ req'[r].resp.code = "CALL_LOG_SAVED_ENCRYPTED") =>
         LET p == DecryptedValue(r).obj
             rec == store'[p["callId"]]
         IN /\ rec.exists
            /\ DOMAIN rec.data \ MetaFields = Business(p)
            /\ \A f \in Business(p) : rec.data[f] = p[f]
            /\ \A c \in CallIds \ {p["callId"]} : store'[c] = store[c]]_vars

C5_Witness ==
  \E r \in Reqs :
    /\ Done(r)
    /\ req[r].resp.code = "CALL_LOG_SAVED_ENCRYPTED"
    /\ req[r].replaced.exists
    /\ "duration" \in DOMAIN req[r].replaced.data
    /\ "duration" \notin DOMAIN store[req[r].id].data
    /\ "summary" \in DOMAIN store[req[r].id].data

\* C6: no stored record has a _timestamp or _version field, and no success
\* result of decryptPayload has them in its data.
C6_InternalFieldsStripped ==
  /\ \A c \in CallIds :
       store[c].exists => DOMAIN store[c].data \cap InternalFields = {}
  /\ \A r \in Reqs :
       /\ (req[r].result.success /\ req[r].result.data.js = "object") =>
            DOMAIN req[r].result.data.obj \cap InternalFields = {}
       /\ req[r].doc.exists => DOMAIN req[r].doc.data \cap InternalFields = {}

C6_Witness ==
  \E r \in Reqs :
    /\ Done(r)
    /\ req[r].resp.code = "CALL_LOG_SAVED_ENCRYPTED"
    /\ Timestamped(r)
    /\ "_version" \in DOMAIN DecryptedValue(r).obj
    /\ store[req[r].id] = req[r].doc

\* the checks of the sequence, stated on the envelope and on what it
\* decrypts to
DecryptFails(r) ==
  \/ req[r].body.encrypted.js # "cipher"
  \/ ~IsString(req[r].body.salt)
  \/ req[r].plain.threw
  \/ ~Decrypted(r)
  \/ DecryptedValue(r).js = "null"
Expired(r) == Timestamped(r) /\ AgeOf(r) > 300000

\* C7: the error reported is the one of the earliest failing step in the
\* order unencrypted, decryption, freshness, validation, persistence; a
\* payload both expired and without callId yields REPLAY_ATTACK_DETECTED.
C7_ErrorPrecedence ==
  \A r \in Reqs :
    Done(r) =>
      LET code == req[r].resp.code
          off == FlagOff(req[r].body)
      IN /\ off => code = "UNENCRYPTED_DATA"
         /\ (~off /\ DecryptFails(r)) => code = "DECRYPTION_ERROR"
         /\ (~off /\ ~DecryptFails(r) /\ Expired(r)) =>
              code = "REPLAY_ATTACK_DETECTED"
         /\ (~off /\ ~DecryptFails(r) /\ ~Expired(r) /\ NoCallId(r)) =>
              code = "MISSING_CALL_ID"
         /\ code = "SERVER_ERROR" =>
              (~off /\ ~DecryptFails(r) /\ ~Expired(r) /\ ~NoCallId(r))

C7_Witness ==
  \E r \in Reqs :
    /\ Done(r)
    /\ ~DecryptFails(r)
    /\ Expired(r)
    /\ NoCallId(r)
    /\ req[r].resp.code = "REPLAY_ATTACK_DETECTED"

RejectCodes ==
  {"UNENCRYPTED_DATA", "DECRYPTION_ERROR", "REPLAY_ATTACK_DETECTED", "MISSING_CALL_ID"}

\* C8: a request that ends in UNENCRYPTED_DATA, DECRYPTION_ERROR,
\* REPLAY_ATTACK_DETECTED or MISSING_CALL_ID ends in the step it arrives,
\* has made no call of set() and leaves the store as it was; and the store
\* changes only for a request that passed all four checks.
C8_NoWriteBeforeChecksPass ==
  [][/\ \A r \in Reqs :
          (req[r].pc # "done" /\ req'[r].pc = "done"
           /\ req'[r].resp.code \in RejectCodes) =>
            /\ req[r].pc = "idle"
            /\ req'[r].setCalls = 0
            /\ store' = store
     /\ store' # store =>
          \E r \in Reqs :
            /\ req[r].pc = "awaitSet"
            /\ ~FlagOff(req[r].body)
            /\ ~DecryptFails(r)
            /\ ~Expired(r)
            /\ ~NoCallId(r)]_vars

C8_Witness ==
  \E r \in Reqs :
    /\ Done(r)
    /\ req[r].resp.code = "MISSING_CALL_ID"
    /\ \E c \in CallIds : store[c].exists

\* C9: a payload that decrypts to a value that is not expired and has no
\* callId (absent or empty) is answered 400 MISSING_CALL_ID in the step it
\* arrives, without a call of set() and with the store left as it was.
C9_MissingCallIdRejected ==
  [][\A r \in Reqs :
       (Arrives(r) /\ ~DecryptFails(r)' /\ ~Expired(r)' /\ NoCallId(r)') =>
         /\ req'[r].pc = "done"
         /\ req'[r].resp = Response(400, "MISSING_CALL_ID")
         /\ req'[r].setCalls = 0
         /\ store' = store]_vars

C9_Witness ==
  \E r \in Reqs :
    /\ Done(r)
    /\ Timestamped(r)
    /\ AgeOf(r) <= 300000
    /\ "callId" \in DOMAIN DecryptedValue(r).obj
    /\ DecryptedValue(r).obj["callId"] = ""
    /\ req[r].resp.code = "MISSING_CALL_ID"

\* a failure of the key derivation (salt that is no string), of the cipher
\* (it throws) or of JSON.parse (the plaintext is no JSON)
CryptoFailure(r) ==
  \/ ~IsString(req[r].body.salt)
  \/ req[r].plain.threw
  \/ req[r].plain.value.text = "garbage"

\* C10: when decryptPayload is called and the key derivation, the cipher or
\* JSON.parse fails, decryptPayload returns a result with code
\* DECRYPTION_ERROR (nothing is thrown to the handler), the response is 400
\* DECRYPTION_ERROR, set() is not called and the store is left as it was.
C10_DecryptionErrorReturned ==
  [][\A r \in Reqs :
       (Arrives(r) /\ ~FlagOff(req'[r].body) /\ CryptoFailure(r)') =>
         /\ req'[r].result.code = "DECRYPTION_ERROR"
         /\ ~req'[r].result.success
         /\ req'[r].pc = "done"
         /\ req'[r].resp = Response(400, "DECRYPTION_ERROR")
         /\ req'[r].setCalls = 0
         /\ store' = store]_vars

C10_Witness ==
  \E r \in Reqs :
    /\ Done(r)
    /\ req[r].body.salt = Salt2
    /\ req[r].plain.threw
    /\ req[r].result.code = "DECRYPTION_ERROR"

(* ------------------------ responses of the handler ---------------------- *)
\* the codes a response of saveVapiCallLog can carry, with their statuses
ClosedResponses ==
  {Response(400, "UNENCRYPTED_DATA"), Response(400, "DECRYPTION_ERROR"),
   Response(403, "REPLAY_ATTACK_DETECTED"), Response(400, "MISSING_CALL_ID"),
   Response(500, "SERVER_ERROR"), Response(200, "CALL_LOG_SAVED_ENCRYPTED")}

\* C11: whatever the body and whether set() resolves or rejects, a handler
\* that has ended has sent exactly one response, its code is one of the six
\* codes of the handler, and nothing was thrown out of the handler; a handler
\* that has not ended has sent nothing.
C11_ExactlyOneStructuredResponse ==
  \A r \in Reqs :
    /\ Done(r) =>
         /\ req[r].sent = 1
         /\ req[r].resp \in ClosedResponses
         /\ ~req[r].escaped
    /\ ~Done(r) =>
         /\ req[r].sent = 0
         /\ req[r].resp = NoResponse
         /\ ~req[r].escaped

C11_Witness ==
  \E r \in Reqs :
    /\ Done(r)
    /\ req[r].set = "rejected"
    /\ req[r].sent = 1
    /\ req[r].resp \in ClosedResponses

\* C12: a request that passed the four checks and whose set() rejected ends
\* with 500 SERVER_ERROR: not with the success response and not with a code
\* of the unencrypted, decryption, replay or validation failures; and the
\* store is as the rejected write found it.
C12_PersistenceErrorIsServerError ==
  [][\A r \in Reqs :
       (req[r].pc = "awaitSet" /\ req'[r].set = "rejected") =>
         /\ req[r].result.success
         /\ ~NoCallId(r)
         /\ ~Expired(r)
         /\ req'[r].pc = "done"
         /\ req'[r].resp = Response(500, "SERVER_ERROR")
         /\ req'[r].resp.code \notin RejectCodes \cup {"CALL_LOG_SAVED_ENCRYPTED"}
         /\ store' = store]_vars

C12_Witness ==
  \E r \in Reqs :
    /\ Done(r)
    /\ req[r].result.success
    /\ req[r].setCalls = 1
    /\ req[r].set = "rejected"
    /\ req[r].resp = Response(500, "SERVER_ERROR")

\* C13: the success response is sent in the step in which the set() of that
\* request resolves, not before; the request has called set() once, on the
\* document id equal to the callId of its decrypted payload, and in that step
\* that record becomes the request's document while every other record stays.
C13_SuccessOnlyAfterWrite ==
  [][\A r \in Reqs :
       (req[r].resp.code # "CALL_LOG_SAVED_ENCRYPTED"
          /\ req'[r].resp.code = "CALL_LOG_SAVED_ENCRYPTED") =>
         /\ req[r].pc = "awaitSet"
         /\ req[r].sent = 0
         /\ req'[r].set = "resolved"
         /\ req'[r].setCalls = 1
         /\ req'[r].id = DecryptedValue(r).obj["callId"]
         /\ store'[req'[r].id] = req'[r].doc
         /\ \A c \in CallIds \ {req'[r].id} : store'[c] = store[c]]_vars

C13_Witness ==
  \E r \in Reqs :
    /\ Done(r)
    /\ req[r].resp = Response(200, "CALL_LOG_SAVED_ENCRYPTED")
    /\ req[r].set = "resolved"
    /\ req[r].setCalls = 1
    /\ store[req[r].id] = req[r].doc

(* ------------------------------ round trip ------------------------------ *)
\* C14: when decryptPayload is applied to what encryptPayload returned for a
\* payload p, no later than maxAge after the encryption, it succeeds and its
\* data is an object with exactly the fields of p other than _timestamp and
\* _version, each with the value it has in p.
C14_RoundTrip ==
  (rt.pc = "decrypted" /\ rt.openedAt - rt.sealed.timestamp <= maxAge) =>
    /\ rt.sealed.success
    /\ rt.opened.success
    /\ rt.opened.data.js = "object"
    /\ DOMAIN rt.opened.data.obj = Business(rt.payload)
    /\ DOMAIN rt.opened.data.obj \cap InternalFields = {}
    /\ \A f \in Business(rt.payload) : rt.opened.data.obj[f] = rt.payload[f]

\* a payload with its own stale _timestamp, opened at the edge of the window
C14_Witness ==
  /\ rt.pc = "decrypted"
  /\ rt.openedAt - rt.sealed.timestamp = maxAge
  /\ DOMAIN rt.payload = Fields
  /\ rt.payload["_timestamp"] = JsNum(0)
  /\ rt.opened.success
  /\ DOMAIN rt.opened.data.obj = Fields \ InternalFields

(* --------------------------- documented body ---------------------------- *)
\* the body has the shape of the doc comment
IsDocumented(e) == "encryptedData" \in DOMAIN e

\* the ciphertext in encryptedData was made with the parameters of
\* decryptPayload from a payload that names a call and is fresh at t
DocumentedAcceptable(e, t) ==
  /\ IsDocumented(e)
  /\ e.encrypted = JsTrue
  /\ Acceptable(Envelope(e.encryptedData, e.salt, e.signature), t)

\* C15: a request whose body has `encrypted: true`, the ciphertext in
\* `encryptedData` and a sound salt, made with the documented parameters
\* from a fresh payload with a callId, is decrypted and written under the
\* callId of its payload.
C15_DocumentedShapeIngested ==
  \A r \in Reqs :
    (Active(r) /\ DocumentedAcceptable(req[r].body, req[r].timestamp)) =>
      /\ req[r].result.success
      /\ req[r].setCalls = 1
      /\ req[r].id = req[r].body.encryptedData.text.value.obj["callId"]
      /\ req[r].resp.code \in {"none", "CALL_LOG_SAVED_ENCRYPTED", "SERVER_ERROR"}

(* ------------------------------ tampering ------------------------------- *)
\* the ciphertext of the body was changed after the encoder produced it
Tampered(e) == e.encrypted.js = "cipher" /\ e.encrypted.altered

\* C16: a request whose ciphertext was altered after encryption never gets
\* as far as the write: set() is not called for it and it is not answered
\* with success, so no payload other than the one encrypted is persisted.
C16_TamperedNeverPersisted ==
  \A r \in Reqs :
    (Active(r) /\ Tampered(req[r].body)) =>
      /\ req[r].setCalls = 0
      /\ req[r].resp.code # "CALL_LOG_SAVED_ENCRYPTED"
      /\ ~req[r].result.success

(* --------------------------- signature status --------------------------- *)
\* C18: a request that carries a ciphertext and a signature different from
\* the HMAC-SHA256 of that ciphertext under the shared secret is answered
\* with status 401.
C18_SignatureMismatchUnauthorized ==
  \A r \in Reqs :
    (Done(r) /\ IsString(req[r].body.encrypted) /\ BadSignature(req[r].body)) =>
      req[r].resp.status = 401

(* -------------------------- concurrent requests ------------------------- *)
\* what a request with body e that arrives at clock reading t ends with
\* when it is the only request: its response, the document it hands to
\* set() and the document id
AloneOutcomes(e, t) ==
  UNION { LET h == saveVapiCallLogSync(e, t, out)
          IN IF h.setCalls = 0
             THEN {[resp |-> h.resp, doc |-> h.doc, id |-> h.id, set |-> "none"]}
             ELSE {[resp |-> Response(200, "CALL_LOG_SAVED_ENCRYPTED"),
                    doc |-> h.doc, id |-> h.id, set |-> "resolved"],
                   [resp |-> Response(500, "SERVER_ERROR"),
                    doc |-> h.doc, id |-> h.id, set |-> "rejected"]}
        : out \in CipherOutcomes(e) }

\* the requests whose write to record c has completed
Writers(c) == {r \in Reqs : req[r].set = "resolved" /\ req[r].id = c}

\* C17: with two requests in flight in any interleaving, each ended request
\* has the response, document and document id it has when run alone with
\* the same outcome of its own set(); a record no completed write names does
\* not exist, and a record that one or more completed writes name equals,
\* whole, the document of one of them; and a step of one request changes
\* neither the other request nor, unless it is its own write completing, the
\* store, and then only the record of its own callId.
C17_ConcurrentRequestsIndependent ==
  /\ [](\A r \in Reqs :
          Done(r) =>
            [resp |-> req[r].resp, doc |-> req[r].doc, id |-> req[r].id,
             set |-> req[r].set] \in AloneOutcomes(req[r].body, req[r].timestamp))
  /\ [](\A c \in CallIds :
          IF Writers(c) = {} THEN store[c] = NoDoc
          ELSE \E r \in Writers(c) : store[c] = req[r].doc)
  /\ [][\A r \in Reqs :
          req'[r] # req[r] =>
            /\ \A q \in Reqs \ {r} : req'[q] = req[q]
            /\ \A c \in CallIds :
                 store'[c] # store[c] =>
                   /\ req'[r].set = "resolved"
                   /\ c = req[r].id
                   /\ store'[c] = req[r].doc]_vars

\* both requests wrote the record of c1, with documents of different fields
C17_Witness ==
  /\ Writers("c1") = Reqs
  /\ DOMAIN req["r1"].doc.data # DOMAIN req["r2"].doc.data
  /\ \E r \in Reqs : store["c1"] = req[r].doc
  /\ \E r \in Reqs : store["c1"] # req[r].doc

(* ------------------------------- ownership ------------------------------ *)
\* the handlers that compare req.userIP with the owner of the reservation
OwnerOnly == {"getReservation", "cancelReservation", "modifyReservation"}

\* C19: when getReservation, cancelReservation or modifyReservation is
\* called for an existing reservation with a userIP other than the one that
\* created it, the answer is 403 without a reservation in the body, and
\* RESERVATIONS (status, date, time, guests and table of every reservation)
\* and the availability of every table are as before the call.
C19_ReservationOwnership ==
  [][\A b \in BReqs :
       (/\ breq[b].pc = "idle"
        /\ breq'[b].op \in OwnerOnly
        /\ breq'[b].reservationId \in DOMAIN RESERVATIONS
        /\ RESERVATIONS[breq'[b].reservationId].userIP # breq'[b].userIP) =>
         /\ breq'[b].pc = "done"
         /\ breq'[b].resp = BookingResponse(403, NoReservation)
         /\ RESERVATIONS' = RESERVATIONS
         /\ available' = available]_vars

\* a stranger's cancel of a confirmed reservation its owner could cancel
C19_Witness ==
  \E b \in BReqs :
    /\ breq[b].pc = "done"
    /\ breq[b].op = "cancelReservation"
    /\ breq[b].reservationId \in DOMAIN RESERVATIONS
    /\ LET reservation == RESERVATIONS[breq[b].reservationId]
       IN /\ reservation.userIP # breq[b].userIP
          /\ reservation.status = "confirmed"
          /\ ~IsPast(reservation.date)
          /\ ~available[reservation.tableId]
    /\ breq[b].resp.status = 403

\* C20: getPaymentStatusHandler answers 404 for a paymentId PAYMENTS does not
\* hold and 403 for a payment made from another userIP, in both cases with
\* no payment in the body; a payment is in the body only when it is the one
\* asked for and was made from the userIP of the request; PAYMENTS is as
\* before the call.
C20_PaymentOwnership ==
  [][(preq.pc = "idle" /\ preq'.op = "getPaymentStatus") =>
       LET id == preq'.paymentId
           userIP == preq'.userIP
       IN /\ preq'.pc = "done"
          /\ PAYMENTS' = PAYMENTS
          /\ id \notin DOMAIN PAYMENTS =>
               preq'.resp = PaymentResponse(404, NoPayment)
          /\ (id \in DOMAIN PAYMENTS /\ PAYMENTS[id].userIP # userIP) =>
               preq'.resp = PaymentResponse(403, NoPayment)
          /\ (id \in DOMAIN PAYMENTS /\ PAYMENTS[id].userIP = userIP) =>
               preq'.resp = PaymentResponse(200, PAYMENTS[id])
          /\ preq'.resp.payment # NoPayment =>
               preq'.resp.payment.userIP = userIP]_vars

\* a stranger asks for a payment that exists
C20_Witness ==
  /\ preq.pc = "done"
  /\ preq.op = "getPaymentStatus"
  /\ preq.paymentId \in DOMAIN PAYMENTS
  /\ PAYMENTS[preq.paymentId].userIP # preq.userIP
  /\ preq.resp.status = 403

(* --------------------------- timestamps ahead --------------------------- *)
\* C21: a request whose payload carries a _timestamp later than the clock
\* reading at which it is handled, by any amount, is not answered
\* REPLAY_ATTACK_DETECTED: decryptPayload succeeds, and the request is
\* answered MISSING_CALL_ID exactly when it names no call and otherwise
\* makes its one call of set().
C21_FutureTimestampAccepted ==
  \A r \in Reqs :
    (Active(r) /\ Timestamped(r) /\ AgeOf(r) < 0) =>
      /\ req[r].result.success
      /\ req[r].result.code = "DECRYPTION_SUCCESS"
      /\ req[r].resp.code # "REPLAY_ATTACK_DETECTED"
      /\ (req[r].resp.code = "MISSING_CALL_ID") <=> NoCallId(r)
      /\ NoCallId(r) \/ req[r].setCalls = 1

\* a payload stamped more than a whole window ahead was stored
C21_Witness ==
  \E r \in Reqs :
    /\ Done(r)
    /\ Timestamped(r)
    /\ 0 - AgeOf(r) > maxAge
    /\ req[r].resp.code = "CALL_LOG_SAVED_ENCRYPTED"
    /\ store[req[r].id] = req[r].doc

(* ---------------------- timestamps that are not numbers ----------------- *)
\* r decrypted to an object
DecryptedObject(r) == Decrypted(r) /\ DecryptedValue(r).js = "object"
\* the answer of r is the replay rejection
RejectedAsReplay(r) ==
  \/ req[r].resp.code = "REPLAY_ATTACK_DETECTED"
  \/ req[r].result.code = "REPLAY_ATTACK_DETECTED"
\* r was not rejected as a replay and, if it names a call, reached set()
PastFreshness(r) ==
  /\ ~RejectedAsReplay(r)
  /\ req[r].result.success
  /\ NoCallId(r) \/ req[r].setCalls = 1

\* C26 as stated: a request is rejected as a replay only when its payload
\* carries a _timestamp that is a number and more than 300000 ms old; a
\* payload without _timestamp, or with one that is not a number, is never
\* rejected as a replay and is handed to set() when it names a call.
C26_NonNumberNeverRejected ==
  \A r \in Reqs :
    (Active(r) /\ DecryptedObject(r)) =>
      /\ RejectedAsReplay(r) =>
           /\ "_timestamp" \in DOMAIN DecryptedValue(r).obj
           /\ DecryptedValue(r).obj["_timestamp"].js = "number"
           /\ AgeOf(r) > 300000
      /\ (\/ "_timestamp" \notin DOMAIN DecryptedValue(r).obj
          \/ DecryptedValue(r).obj["_timestamp"].js # "number") => PastFreshness(r)

\* C26 amended: a request is rejected as a replay exactly when its payload
\* carries a _timestamp that converts to a number t with now - t > 300000;
\* a payload without _timestamp, or with one that converts to NaN, is never
\* rejected as a replay and is handed to set() when it names a call, while
\* a _timestamp of null converts to 0 and is judged as the number 0.
C26_NaNTimestampNeverRejected ==
  \A r \in Reqs :
    (Active(r) /\ DecryptedObject(r)) =>
      /\ RejectedAsReplay(r) <=> (Timestamped(r) /\ AgeOf(r) > 300000)
      /\ ~Timestamped(r) => PastFreshness(r)
      /\ (/\ "_timestamp" \in DOMAIN DecryptedValue(r).obj
          /\ DecryptedValue(r).obj["_timestamp"] = JsNull) =>
           (RejectedAsReplay(r) <=> req[r].timestamp > 300000)

\* a payload whose _timestamp is a string that is no numeral was stored
C26_Witness ==
  \E r \in Reqs :
    /\ Done(r)
    /\ DecryptedObject(r)
    /\ "_timestamp" \in DOMAIN DecryptedValue(r).obj
    /\ DecryptedValue(r).obj["_timestamp"] = JsString("soon")
    /\ req[r].resp.code = "CALL_LOG_SAVED_ENCRYPTED"
    /\ store[req[r].id] = req[r].doc

(* --------------------------- envelopes sent again ----------------------- *)
\* slot q has answered with success the envelope that slot r holds
AnsweredBefore(q, r) ==
  /\ q # r
  /\ Done(q)
  /\ req[q].resp.code = "CALL_LOG_SAVED_ENCRYPTED"
  /\ req[q].body = req[r].body

\* C27: when an envelope that was answered with success arrives again and
\* its payload is still at most 300000 ms old, it is handled as the first
\* time: the same document but for the clock readings in it goes to set()
\* under the same id, and when that write completes the answer is the one
\* given the first time and the record of the callId is the document of
\* this request, whatever the record was before.
C27_ResubmissionRewrites ==
  [][\A r, q \in Reqs :
       /\ (Arrives(r) /\ AnsweredBefore(q, r)' /\ AgeOf(r)' <= 300000) =>
            /\ req'[r].pc = "awaitSet"
            /\ req'[r].setCalls = 1
            /\ req'[r].id = req[q].id
            /\ req'[r].doc = CallLogDoc(RemoveInternal(DecryptedValue(q)), now)
            /\ \A f \in DOMAIN req[q].doc.data \ MetaFields :
                 req'[r].doc.data[f] = req[q].doc.data[f]
       /\ (req[r].pc = "awaitSet" /\ req'[r].set = "resolved" /\ AnsweredBefore(q, r)) =>
            /\ req'[r].resp = req[q].resp
            /\ store'[req[r].id] = req[r].doc]_vars

\* the envelope was answered, another payload of the call was stored, and
\* the envelope sent again at a later reading replaced that record
C27_Witness ==
  \E r, q \in Reqs :
    /\ AnsweredBefore(q, r)
    /\ Done(r)
    /\ req[r].resp.code = "CALL_LOG_SAVED_ENCRYPTED"
    /\ req[r].timestamp > req[q].timestamp
    /\ req[r].replaced.exists
    /\ DOMAIN req[r].replaced.data # DOMAIN req[r].doc.data
    /\ store[req[r].id] = req[r].doc

(* ------------------------------ tables ---------------------------------- *)
\* the reservations with status 'confirmed'
Confirmed == {i \in DOMAIN RESERVATIONS : RESERVATIONS[i].status = "confirmed"}
\* the step in which slot b runs createReservation and a reservation is made
Books(b) ==
  /\ breq[b].pc = "idle"
  /\ breq'[b].op = "createReservation"
  /\ breq'[b].reservationId # 0

\* C22: the table createReservation gives to a new reservation was
\* available before the call and seats the party, no table that was
\* available and seats the party has fewer seats, and after the call the
\* table is unavailable and the availability of the other tables is as it
\* was.
C22_SmallestSuitableTable ==
  [][\A b \in BReqs :
       Books(b) =>
         LET new == RESERVATIONS'[breq'[b].reservationId]
             t == new.tableId
         IN /\ Len(RESERVATIONS') = Len(RESERVATIONS) + 1
            /\ available[t]
            /\ Seats[t] >= new.numGuests
            /\ \A u \in TableIds :
                 (available[u] /\ Seats[u] >= new.numGuests) => Seats[t] <= Seats[u]
            /\ ~available'[t]
            /\ \A u \in TableIds \ {t} : available'[u] = available[u]]_vars

\* a party of five got the table of six while the table of eight was free
C22_Witness ==
  \E b \in BReqs :
    /\ breq[b].pc = "done"
    /\ breq[b].op = "createReservation"
    /\ breq[b].resp.status = 201
    /\ breq[b].resp.reservation.numGuests = 5
    /\ breq[b].resp.reservation.tableId = 5
    /\ ~available[5]
    /\ available[6]

\* C23: no table is the tableId of two reservations with status
\* 'confirmed'.
C23_NoDoubleBooking ==
  \A i, j \in Confirmed :
    i # j => RESERVATIONS[i].tableId # RESERVATIONS[j].tableId

\* C24: a table other than table 4 is unavailable exactly when it is the
\* tableId of a reservation with status 'confirmed'.
C24_AvailabilityMatchesReservations ==
  \A t \in TableIds \ {4} :
    ~available[t] <=> \E i \in Confirmed : RESERVATIONS[i].tableId = t

\* slots b and q both hold a createReservation call that made a reservation
Together(b, q) ==
  /\ b # q
  /\ breq[b].op = "createReservation" /\ breq[b].reservationId # 0
  /\ breq[q].op = "createReservation" /\ breq[q].reservationId # 0

\* C25: two createReservation calls in flight together hold reservations
\* for different tables, and a call suspended in the await of the
\* confirmation email has already stored its reservation and marked its
\* table unavailable.
C25_ConcurrentCreatesDistinctTables ==
  /\ \A b, q \in BReqs :
       Together(b, q) =>
         RESERVATIONS[breq[b].reservationId].tableId
           # RESERVATIONS[breq[q].reservationId].tableId
  /\ \A b \in BReqs :
       breq[b].pc = "awaitEmail" =>
         /\ breq[b].reservationId \in DOMAIN RESERVATIONS
         /\ ~available[RESERVATIONS[breq[b].reservationId].tableId]

\* two calls for parties of two are both suspended in their await
C25_Witness ==
  \E b, q \in BReqs :
    /\ Together(b, q)
    /\ breq[b].pc = "awaitEmail"
    /\ breq[q].pc = "awaitEmail"
    /\ RESERVATIONS[breq[b].reservationId].numGuests = 2
    /\ RESERVATIONS[breq[q].reservationId].numGuests = 2
    /\ RESERVATIONS[breq[b].reservationId].tableId = 1
    /\ RESERVATIONS[breq[q].reservationId].tableId = 2

====
